---- MODULE Spec2Model ----
(***************************************************************************)
(* Model of dev/start_mock_agents.py: the launcher, the liveness monitor   *)
(* and the two-phase shutdown of the mock OCS agents.                      *)
(*                                                                         *)
(* The supervising script is one thread of control (pc); the child         *)
(* processes, the files of the agent directory and the operator's          *)
(* interrupt are the environment.  The directory is read where the script  *)
(* reads it (exists(), glob()): each read is an input of the action, since *)
(* files may come and go between two reads.  Time is counted only where    *)
(* the script blocks on a bounded wait (proc.wait(timeout=...)), in whole  *)
(* units.  A KeyboardInterrupt is modelled where the script waits for the  *)
(* operator or for its children: at the input() of the reachability gate,  *)
(* inside monitor_processes and inside shutdown_agents.                    *)
(*                                                                         *)
(* Spec is the whole run of main.  LiveSpec adds the progress of the       *)
(* monitor loop.  In Spec a report is one step (MonitorReport, counted in  *)
(* reports); ReportSpec is handle_dead_agent by itself, on every agent     *)
(* name, exit status and captured output, a text being the sequence of     *)
(* its characters.                                                         *)
(***************************************************************************)
EXTENDS Integers, Sequences, FiniteSets, TLC

(* ---------------------------------------------------------------- bounds *)

\* Longest 'agents' list a configuration file holds in the model.
MaxAgents == 2

\* Longest captured output of a dead agent, in characters.
MaxOutput == 3

(* ------------------------------------------------------ program constants *)

EXIT_SUCCESS == 0
EXIT_CONFIG_ERROR == 1
EXIT_AGENT_DIR_NOT_FOUND == 2
EXIT_NO_AGENTS == 3
EXIT_USER_ABORT == 130

PROCESS_TERMINATE_TIMEOUT == 5

EXCLUDED_YAML_FILES == {"config.yaml"}

\* The YAML files an agent directory may hold, each one agent definition or a configuration file.
YamlFiles == {"a.yaml", "b.yaml", "config.yaml"}

\* The directories of the model: config.yaml is always in it.
Directories == {d \cup {"config.yaml"} : d \in SUBSET YamlFiles}

\* load_config: the fields the crossbar section must hold.
required_fields == {"url", "realm", "address_root"}

(* ------------------------------------------------------------- variables *)

VARIABLES
    pc,             \* position of the script
    outcome,        \* why the run ended ("none" while it runs)
    exit_code,      \* the process exit status of the script (-1 while it runs)
    available,      \* available_agents of main
    config_ok,      \* load_config returned a configuration
    gate,           \* how the reachability gate was passed
    agents,         \* the agents list handed to start_agents
    lidx,           \* loop position of start_agents
    present,        \* per input identifier: yaml_path.exists() when checked
    processes,      \* names of the handles, in list order
    proc,           \* per handle: "running", "exited" or "killed"
    monitor_calls,  \* number of calls of monitor_processes
    idx,            \* loop position of the for loop of monitor_processes
    alive_count,
    reported_dead,
    reports,        \* per handle: number of handle_dead_agent calls
    cancelled,      \* a KeyboardInterrupt was raised inside monitor_processes
    shutdown_calls, \* number of calls of shutdown_agents
    sidx,           \* loop position of the loops of shutdown_agents
    term_sent,      \* per handle: number of proc.terminate() calls
    kill_sent,      \* per handle: number of proc.kill() calls
    waited,         \* per handle: "none", "waiting", "returned" or "timeout"
    waits_begun,    \* number of proc.wait calls begun
    waits_at_term,  \* per handle: waits_begun when its terminate was sent
    now,            \* clock of the blocking waits
    term_at,        \* per handle: time of its terminate request
    wait_start,     \* per handle: time its proc.wait began
    exit_at,        \* per handle: time the process exited
    kill_at,        \* per handle: time of its forced kill
    dead_agent,     \* handle_dead_agent: its name argument
    returncode,     \* handle_dead_agent: proc.returncode
    output,         \* handle_dead_agent: what proc.stdout.read() returns
    todo,           \* handle_dead_agent: lines the for loop has still to log
    log             \* the log.warning records of handle_dead_agent

main_vars == <<available, config_ok, gate, agents>>
launch_vars == <<lidx, present, processes>>
monitor_vars == <<monitor_calls, idx, alive_count, reported_dead, reports, cancelled>>
shutdown_vars == <<shutdown_calls, sidx, term_sent, kill_sent, waited, waits_begun,
                   waits_at_term, term_at, wait_start, kill_at>>
exit_vars == <<outcome, exit_code>>
report_vars == <<dead_agent, returncode, output, todo, log>>
vars == <<pc, exit_vars, main_vars, launch_vars, monitor_vars,
          shutdown_vars, proc, now, exit_at, report_vars>>

(* --------------------------------------------------------------- helpers *)

Handles == DOMAIN processes

\* Sequences over S of length at most n.
SeqsUpTo(S, n) == UNION {[1..k -> S] : k \in 0..n}

\* The characters of an agent's output: a text is a sequence of them.
Chars == {"a", "b", " ", "\n"}

\* What str.strip() removes, among Chars.
Whitespace == {" ", "\n"}

\* Exit statuses of a dead agent.
ReturnCodes == {0, 1}

RECURSIVE lstrip(_)
lstrip(s) ==
    IF s # <<>> /\ Head(s) \in Whitespace THEN lstrip(Tail(s)) ELSE s

RECURSIVE rstrip(_)
rstrip(s) ==
    IF s # <<>> /\ s[Len(s)] \in Whitespace
    THEN rstrip(SubSeq(s, 1, Len(s) - 1))
    ELSE s

\* str.strip(): the text without its leading and trailing whitespace.
strip(s) == rstrip(lstrip(s))

\* str.split("\n"): the pieces between the line breaks, empty pieces
\* included; a text without a line break, the empty text too, is one piece.
RECURSIVE split(_)
split(s) ==
    IF \A k \in 1..Len(s) : s[k] # "\n"
    THEN <<s>>
    ELSE LET k == CHOOSE k \in 1..Len(s) :
                      s[k] = "\n" /\ \A j \in 1..(k - 1) : s[j] # "\n"
         IN  <<SubSeq(s, 1, k - 1)>> \o split(SubSeq(s, k + 1, Len(s)))

\* discover_agents: the *.yaml files of the directory that are not excluded.
discover_agents(dir_files) ==
    {f \in dir_files : f \in YamlFiles /\ f \notin EXCLUDED_YAML_FILES}

\* load_config: TRUE when the configuration passes every validation.
load_config_valid(cfg) ==
    /\ cfg.exists
    /\ cfg.has_crossbar
    /\ \A field \in required_fields : field \in cfg.crossbar
    /\ cfg.agents # <<>>

\* The configuration files of the model.
Configs ==
    [exists : BOOLEAN, has_crossbar : BOOLEAN,
     crossbar : {required_fields, {"url", "realm"}, {}},
     agents : SeqsUpTo(YamlFiles, MaxAgents)]

\* main: agents = [a for a in agents if a in available_agents]
IsAvailable(a) == a \in available
valid_agents(cfg_agents) == SelectSeq(cfg_agents, IsAvailable)

\* str.lower() on the answers of the model.
Lower(s) == IF s = "Y" THEN "y" ELSE IF s = "N" THEN "n" ELSE s

Responses == {"y", "Y", "n", ""}

\* sys.exit(code)
SysExit(why, code) ==
    /\ pc' = "exited"
    /\ outcome' = why
    /\ exit_code' = code

(* ------------------------------------------------------------------ Init *)

\* No session yet: nothing discovered, launched, monitored or shut down.
NoSession ==
    /\ outcome = "none"
    /\ exit_code = -1
    /\ available = {}
    /\ config_ok = FALSE
    /\ gate = "none"
    /\ agents = <<>>
    /\ lidx = 1
    /\ present = <<>>
    /\ processes = <<>>
    /\ proc = <<>>
    /\ monitor_calls = 0
    /\ idx = 1
    /\ alive_count = 0
    /\ reported_dead = {}
    /\ reports = <<>>
    /\ cancelled = FALSE
    /\ shutdown_calls = 0
    /\ sidx = 1
    /\ term_sent = <<>>
    /\ kill_sent = <<>>
    /\ waited = <<>>
    /\ waits_begun = 0
    /\ waits_at_term = <<>>
    /\ now = 0
    /\ term_at = <<>>
    /\ wait_start = <<>>
    /\ exit_at = <<>>
    /\ kill_at = <<>>

\* handle_dead_agent is not running.
NoReport ==
    /\ dead_agent = "none"
    /\ returncode = 0
    /\ output = <<>>
    /\ todo = <<>>
    /\ log = <<>>

Init ==
    /\ pc = "main"
    /\ NoSession
    /\ NoReport

(* ------------------------------------------------------------------ main *)

\* main, lines 463-480: the agent directory, discovery, --list.
MainDiscover ==
    /\ pc = "main"
    /\ \E dir_exists \in BOOLEAN, dir_files \in Directories, list_agents \in BOOLEAN :
        IF ~dir_exists
        THEN /\ SysExit("agent_dir_not_found", EXIT_AGENT_DIR_NOT_FOUND)
             /\ UNCHANGED available
        ELSE /\ available' = discover_agents(dir_files)
             /\ IF list_agents
                THEN SysExit("list", EXIT_SUCCESS)
                ELSE pc' = "load_config" /\ UNCHANGED exit_vars
    /\ UNCHANGED <<config_ok, gate, agents, launch_vars, monitor_vars,
                   shutdown_vars, proc, now, exit_at>>
    /\ UNCHANGED report_vars

\* main, lines 483-498: load_config, then the filter against available_agents.
MainLoadConfig ==
    /\ pc = "load_config"
    /\ \E cfg \in Configs :
        IF ~load_config_valid(cfg)
        THEN /\ SysExit("config_error", EXIT_CONFIG_ERROR)
             /\ UNCHANGED <<config_ok, agents>>
        ELSE /\ config_ok' = TRUE
             /\ agents' = valid_agents(cfg.agents)
             /\ IF valid_agents(cfg.agents) = <<>>
                THEN SysExit("no_valid_agents", EXIT_NO_AGENTS)
                ELSE pc' = "probe" /\ UNCHANGED exit_vars
    /\ UNCHANGED <<available, gate, launch_vars, monitor_vars,
                   shutdown_vars, proc, now, exit_at>>
    /\ UNCHANGED report_vars

\* main, lines 511-523: check_crossbar_connection, then the gate.
MainProbe ==
    /\ pc = "probe"
    /\ \E reachable \in BOOLEAN :
        IF reachable
        THEN pc' = "start_agents" /\ gate' = "passed"
        ELSE pc' = "gate" /\ UNCHANGED gate
    /\ UNCHANGED <<exit_vars, available, config_ok, agents, launch_vars,
                   monitor_vars, shutdown_vars, proc, now, exit_at>>
    /\ UNCHANGED report_vars

\* MainGateAnswer with the test inverted: anything but "y" continues.
MainGateAnswer_Inverted ==
    /\ pc = "gate"
    /\ \E response \in Responses :
        IF Lower(response) = "y"
        THEN SysExit("user_abort", EXIT_USER_ABORT) /\ gate' = "declined"
        ELSE pc' = "start_agents" /\ gate' = "declined" /\ UNCHANGED exit_vars
    /\ UNCHANGED <<available, config_ok, agents, launch_vars,
                   monitor_vars, shutdown_vars, proc, now, exit_at>>
    /\ UNCHANGED report_vars

\* main, lines 515-518: input() returns an answer.
MainGateAnswer ==
    /\ pc = "gate"
    /\ \E response \in Responses :
        IF Lower(response) # "y"
        THEN SysExit("user_abort", EXIT_USER_ABORT) /\ gate' = "declined"
        ELSE pc' = "start_agents" /\ gate' = "passed" /\ UNCHANGED exit_vars
    /\ UNCHANGED <<available, config_ok, agents, launch_vars,
                   monitor_vars, shutdown_vars, proc, now, exit_at>>
    /\ UNCHANGED report_vars

\* main, lines 519-521: input() raises EOFError or KeyboardInterrupt.
MainGateInterrupted ==
    /\ pc = "gate"
    /\ SysExit("user_abort", EXIT_USER_ABORT)
    /\ gate' = "declined"
    /\ UNCHANGED <<available, config_ok, agents, launch_vars,
                   monitor_vars, shutdown_vars, proc, now, exit_at>>
    /\ UNCHANGED report_vars

(* ---------------------------------------------------------- start_agents *)

\* start_agents, lines 322-332: agent.py must exist; the loop starts empty.
StartAgentsEnter ==
    /\ pc = "start_agents"
    /\ \E agent_script_exists \in BOOLEAN :
       IF ~agent_script_exists
       THEN SysExit("agent_py_not_found", EXIT_AGENT_DIR_NOT_FOUND)
       ELSE pc' = "launching" /\ UNCHANGED exit_vars
    /\ UNCHANGED <<main_vars, launch_vars, monitor_vars, shutdown_vars,
                   proc, now, exit_at>>
    /\ UNCHANGED report_vars

\* processes.append((agent_yaml, proc)) with the handle's bookkeeping.
AppendHandle(name) ==
    /\ processes' = Append(processes, name)
    /\ proc' = Append(proc, "running")
    /\ reports' = Append(reports, 0)
    /\ term_sent' = Append(term_sent, 0)
    /\ kill_sent' = Append(kill_sent, 0)
    /\ waited' = Append(waited, "none")
    /\ waits_at_term' = Append(waits_at_term, 0)
    /\ term_at' = Append(term_at, 0)
    /\ wait_start' = Append(wait_start, 0)
    /\ exit_at' = Append(exit_at, 0)
    /\ kill_at' = Append(kill_at, 0)

NoNewHandle ==
    UNCHANGED <<processes, proc, reports, term_sent, kill_sent, waited,
                waits_at_term, term_at, wait_start, exit_at, kill_at>>

\* StartAgentsStep with break for continue: a missing file ends the loop.
StartAgentsStep_BreakOnMissing ==
    /\ pc = "launching"
    /\ lidx <= Len(agents)
    /\ \E yaml_path_exists \in BOOLEAN :
        /\ present' = Append(present, yaml_path_exists)
        /\ IF ~yaml_path_exists
           THEN lidx' = Len(agents) + 1 /\ NoNewHandle
           ELSE lidx' = lidx + 1 /\ AppendHandle(agents[lidx])
    /\ UNCHANGED <<pc, exit_vars, main_vars, monitor_calls, idx,
                   alive_count, reported_dead, cancelled, shutdown_calls, sidx,
                   waits_begun, now>>
    /\ UNCHANGED report_vars

\* start_agents, lines 334-346: one iteration of the loop, Popen succeeding.
StartAgentsStep ==
    /\ pc = "launching"
    /\ lidx <= Len(agents)
    /\ lidx' = lidx + 1
    /\ \E yaml_path_exists \in BOOLEAN :
        /\ present' = Append(present, yaml_path_exists)
        /\ IF ~yaml_path_exists
           THEN NoNewHandle
           ELSE AppendHandle(agents[lidx])
    /\ UNCHANGED <<pc, exit_vars, main_vars, monitor_calls, idx,
                   alive_count, reported_dead, cancelled, shutdown_calls, sidx,
                   waits_begun, now>>
    /\ UNCHANGED report_vars

\* start_agents, line 343: subprocess.Popen raises (OSError); nothing catches
\* it, the interpreter prints the traceback and exits with status 1.
StartAgentsPopenRaises ==
    /\ pc = "launching"
    /\ lidx <= Len(agents)
    /\ present' = Append(present, TRUE)
    /\ SysExit("launch_error", 1)
    /\ UNCHANGED <<main_vars, lidx, processes, monitor_vars,
                   shutdown_vars, proc, now, exit_at>>
    /\ UNCHANGED report_vars

\* MainAfterStart without the test of an empty list.
MainAfterStart_NoCheck ==
    /\ pc = "launching"
    /\ lidx > Len(agents)
    /\ pc' = "poll"
    /\ monitor_calls' = monitor_calls + 1
    /\ reported_dead' = {}
    /\ alive_count' = 0
    /\ idx' = 1
    /\ UNCHANGED <<exit_vars, reports, cancelled>>
    /\ UNCHANGED <<main_vars, launch_vars, shutdown_vars, proc, now, exit_at>>
    /\ UNCHANGED report_vars

\* start_agents returns (line 348); main, lines 534-541.
MainAfterStart ==
    /\ pc = "launching"
    /\ lidx > Len(agents)
    /\ IF processes = <<>>
       THEN /\ SysExit("no_agents_started", EXIT_NO_AGENTS)
            /\ UNCHANGED monitor_vars
       ELSE /\ pc' = "poll"
            /\ monitor_calls' = monitor_calls + 1
            /\ reported_dead' = {}
            /\ alive_count' = 0
            /\ idx' = 1
            /\ UNCHANGED <<exit_vars, reports, cancelled>>
    /\ UNCHANGED <<main_vars, launch_vars, shutdown_vars, proc, now,
                   exit_at>>
    /\ UNCHANGED report_vars

(* ----------------------------------------------------- monitor_processes *)

\* MonitorPoll with break for continue: a handle already reported ends the
\* for loop of the cycle.
MonitorPoll_BreakOnReported ==
    /\ pc = "poll"
    /\ idx <= Len(processes)
    /\ IF proc[idx] = "running"
       THEN /\ alive_count' = alive_count + 1
            /\ idx' = idx + 1
            /\ UNCHANGED <<pc, reported_dead>>
       ELSE IF processes[idx] \notin reported_dead
            THEN /\ reported_dead' = reported_dead \cup {processes[idx]}
                 /\ pc' = "report"
                 /\ UNCHANGED <<alive_count, idx>>
            ELSE /\ idx' = Len(processes) + 1
                 /\ UNCHANGED <<pc, alive_count, reported_dead>>
    /\ UNCHANGED <<exit_vars, main_vars, launch_vars, monitor_calls,
                   reports, cancelled, shutdown_vars, proc, now, exit_at>>
    /\ UNCHANGED report_vars

\* MonitorPoll without the reported_dead check: an exited handle is reported
\* in every cycle that sees it.
MonitorPoll_NoDedup ==
    /\ pc = "poll"
    /\ idx <= Len(processes)
    /\ IF proc[idx] = "running"
       THEN /\ alive_count' = alive_count + 1
            /\ idx' = idx + 1
            /\ UNCHANGED <<pc, reported_dead>>
       ELSE /\ reported_dead' = reported_dead \cup {processes[idx]}
            /\ pc' = "report"
            /\ UNCHANGED <<alive_count, idx>>
    /\ UNCHANGED <<exit_vars, main_vars, launch_vars, monitor_calls,
                   reports, cancelled, shutdown_vars, proc, now, exit_at>>
    /\ UNCHANGED report_vars

\* monitor_processes, lines 386-394: one iteration of the for loop up to the
\* call of handle_dead_agent.
MonitorPoll ==
    /\ pc = "poll"
    /\ idx <= Len(processes)
    /\ IF proc[idx] = "running"
       THEN /\ alive_count' = alive_count + 1
            /\ idx' = idx + 1
            /\ UNCHANGED <<pc, reported_dead>>
       ELSE IF processes[idx] \notin reported_dead
            THEN /\ reported_dead' = reported_dead \cup {processes[idx]}
                 /\ pc' = "report"
                 /\ UNCHANGED <<alive_count, idx>>
            ELSE /\ idx' = idx + 1
                 /\ UNCHANGED <<pc, alive_count, reported_dead>>
    /\ UNCHANGED <<exit_vars, main_vars, launch_vars, monitor_calls,
                   reports, cancelled, shutdown_vars, proc, now, exit_at>>
    /\ UNCHANGED report_vars

\* monitor_processes, line 395: handle_dead_agent(name, proc).
MonitorReport ==
    /\ pc = "report"
    /\ reports' = [reports EXCEPT ![idx] = @ + 1]
    /\ idx' = idx + 1
    /\ pc' = "poll"
    /\ UNCHANGED <<exit_vars, main_vars, launch_vars, monitor_calls,
                   alive_count, reported_dead, cancelled, shutdown_vars, proc,
                   now, exit_at>>
    /\ UNCHANGED report_vars

\* MonitorEndOfCycle calling shutdown_agents when every agent has exited.
MonitorEndOfCycle_Shutdown ==
    /\ pc = "poll"
    /\ idx > Len(processes)
    /\ IF alive_count = 0
       THEN /\ pc' = "terminate"
            /\ shutdown_calls' = shutdown_calls + 1
            /\ sidx' = 1
       ELSE pc' = "sleep" /\ UNCHANGED <<shutdown_calls, sidx>>
    /\ UNCHANGED <<exit_vars, main_vars, launch_vars, monitor_vars, term_sent,
                   kill_sent, waited, waits_begun, waits_at_term, term_at,
                   wait_start, kill_at, proc, now, exit_at>>
    /\ UNCHANGED report_vars

\* MonitorEndOfCycle without the break: the loop sleeps after every cycle.
MonitorEndOfCycle_NeverBreaks ==
    /\ pc = "poll"
    /\ idx > Len(processes)
    /\ pc' = "sleep"
    /\ UNCHANGED <<exit_vars, main_vars, launch_vars, monitor_vars,
                   shutdown_vars, proc, now, exit_at>>
    /\ UNCHANGED report_vars

\* monitor_processes, lines 397-401: the end of one cycle.  On break the
\* function and main return: the script exits with status 0.
MonitorEndOfCycle ==
    /\ pc = "poll"
    /\ idx > Len(processes)
    /\ IF alive_count = 0
       THEN SysExit("completed", EXIT_SUCCESS)
       ELSE pc' = "sleep" /\ UNCHANGED exit_vars
    /\ UNCHANGED <<main_vars, launch_vars, monitor_vars, shutdown_vars,
                   proc, now, exit_at>>
    /\ UNCHANGED report_vars

\* MonitorSleep with reported_dead created inside the while loop: every cycle
\* starts with an empty set.
MonitorSleep_ClearsReported ==
    /\ pc = "sleep"
    /\ pc' = "poll"
    /\ alive_count' = 0
    /\ idx' = 1
    /\ reported_dead' = {}
    /\ UNCHANGED <<exit_vars, main_vars, launch_vars, monitor_calls,
                   reports, cancelled, shutdown_vars, proc, now, exit_at>>
    /\ UNCHANGED report_vars

\* monitor_processes, lines 401, 383-384: time.sleep(1) ends, the next cycle.
MonitorSleep ==
    /\ pc = "sleep"
    /\ pc' = "poll"
    /\ alive_count' = 0
    /\ idx' = 1
    /\ UNCHANGED <<exit_vars, main_vars, launch_vars, monitor_calls,
                   reported_dead, reports, cancelled, shutdown_vars, proc, now,
                   exit_at>>
    /\ UNCHANGED report_vars

\* MonitorInterrupt with an except block that only leaves the loop.
MonitorInterrupt_NoShutdown ==
    /\ pc \in {"poll", "report", "sleep"}
    /\ cancelled' = TRUE
    /\ SysExit("completed", EXIT_SUCCESS)
    /\ UNCHANGED <<main_vars, launch_vars, monitor_calls, idx, alive_count,
                   reported_dead, reports, shutdown_vars, proc, now, exit_at>>
    /\ UNCHANGED report_vars

\* monitor_processes, lines 403-405: KeyboardInterrupt anywhere in the try
\* block; shutdown_agents(processes) is entered.
MonitorInterrupt ==
    /\ pc \in {"poll", "report", "sleep"}
    /\ cancelled' = TRUE
    /\ shutdown_calls' = shutdown_calls + 1
    /\ sidx' = 1
    /\ pc' = "terminate"
    /\ UNCHANGED <<exit_vars, main_vars, launch_vars, monitor_calls,
                   idx, alive_count, reported_dead, reports, term_sent,
                   kill_sent, waited, waits_begun, waits_at_term, term_at,
                   wait_start, kill_at, proc, now, exit_at>>
    /\ UNCHANGED report_vars

(* -------------------------------------------------------- shutdown_agents *)

\* The next proc.wait of the second loop begins, on handle i.
BeginWait(i) ==
    IF i <= Len(processes)
    THEN /\ waited' = [waited EXCEPT ![i] = "waiting"]
         /\ wait_start' = [wait_start EXCEPT ![i] = now]
         /\ waits_begun' = waits_begun + 1
    ELSE UNCHANGED <<waited, wait_start, waits_begun>>

\* ShutdownTerminate with the wait inside the first loop: the wait on a handle
\* begins right after its terminate request.
ShutdownTerminate_ThenWait ==
    /\ pc = "terminate"
    /\ sidx <= Len(processes)
    /\ IF proc[sidx] = "running"
       THEN /\ term_sent' = [term_sent EXCEPT ![sidx] = @ + 1]
            /\ term_at' = [term_at EXCEPT ![sidx] = now]
            /\ waits_at_term' = [waits_at_term EXCEPT ![sidx] = waits_begun]
       ELSE UNCHANGED <<term_sent, term_at, waits_at_term>>
    /\ pc' = "wait"
    /\ BeginWait(sidx)
    /\ UNCHANGED <<exit_vars, main_vars, launch_vars, monitor_vars,
                   shutdown_calls, sidx, kill_sent, kill_at, proc, now, exit_at>>
    /\ UNCHANGED report_vars

\* ShutdownTerminate without the poll() check: every handle is sent a
\* terminate request.
ShutdownTerminate_All ==
    /\ pc = "terminate"
    /\ sidx <= Len(processes)
    /\ term_sent' = [term_sent EXCEPT ![sidx] = @ + 1]
    /\ term_at' = [term_at EXCEPT ![sidx] = now]
    /\ waits_at_term' = [waits_at_term EXCEPT ![sidx] = waits_begun]
    /\ sidx' = sidx + 1
    /\ UNCHANGED <<pc, exit_vars, main_vars, launch_vars, monitor_vars,
                   shutdown_calls, kill_sent, waited, waits_begun, wait_start,
                   kill_at, proc, now, exit_at>>
    /\ UNCHANGED report_vars

\* ShutdownTerminate with the poll() test inverted: the running handles are
\* the ones left without a terminate request.
ShutdownTerminate_Inverted ==
    /\ pc = "terminate"
    /\ sidx <= Len(processes)
    /\ IF proc[sidx] # "running"
       THEN /\ term_sent' = [term_sent EXCEPT ![sidx] = @ + 1]
            /\ term_at' = [term_at EXCEPT ![sidx] = now]
            /\ waits_at_term' = [waits_at_term EXCEPT ![sidx] = waits_begun]
       ELSE UNCHANGED <<term_sent, term_at, waits_at_term>>
    /\ sidx' = sidx + 1
    /\ UNCHANGED <<pc, exit_vars, main_vars, launch_vars, monitor_vars,
                   shutdown_calls, kill_sent, waited, waits_begun, wait_start,
                   kill_at, proc, now, exit_at>>
    /\ UNCHANGED report_vars

\* shutdown_agents, lines 420-423: one iteration of the first loop.
ShutdownTerminate ==
    /\ pc = "terminate"
    /\ sidx <= Len(processes)
    /\ IF proc[sidx] = "running"
       THEN /\ term_sent' = [term_sent EXCEPT ![sidx] = @ + 1]
            /\ term_at' = [term_at EXCEPT ![sidx] = now]
            /\ waits_at_term' = [waits_at_term EXCEPT ![sidx] = waits_begun]
       ELSE UNCHANGED <<term_sent, term_at, waits_at_term>>
    /\ sidx' = sidx + 1
    /\ UNCHANGED <<pc, exit_vars, main_vars, launch_vars, monitor_vars,
                   shutdown_calls, kill_sent, waited, waits_begun, wait_start,
                   kill_at, proc, now, exit_at>>
    /\ UNCHANGED report_vars

\* shutdown_agents, lines 423-427: the first loop is over, the second begins
\* with proc.wait on the first handle.
ShutdownBeginWaits ==
    /\ pc = "terminate"
    /\ sidx > Len(processes)
    /\ pc' = "wait"
    /\ sidx' = 1
    /\ BeginWait(1)
    /\ UNCHANGED <<exit_vars, main_vars, launch_vars, monitor_vars,
                   shutdown_calls, term_sent, kill_sent, waits_at_term, term_at,
                   kill_at, proc, now, exit_at>>
    /\ UNCHANGED report_vars

\* ShutdownWaitReturns with proc.kill() outside the except block: the kill is
\* issued after every wait.
ShutdownWaitReturns_Kills ==
    /\ pc = "wait"
    /\ sidx <= Len(processes)
    /\ proc[sidx] # "running"
    /\ waited' = [waited EXCEPT ![sidx] = "returned"]
    /\ pc' = "kill"
    /\ UNCHANGED <<exit_vars, main_vars, launch_vars, monitor_vars,
                   shutdown_calls, sidx, term_sent, kill_sent, waits_begun,
                   waits_at_term, term_at, wait_start, kill_at, proc, now,
                   exit_at>>
    /\ UNCHANGED report_vars

\* shutdown_agents, lines 428-429: proc.wait returns, the process has exited.
ShutdownWaitReturns ==
    /\ pc = "wait"
    /\ sidx <= Len(processes)
    /\ proc[sidx] # "running"
    /\ sidx' = sidx + 1
    /\ waited' = [(IF sidx + 1 <= Len(processes)
                   THEN [waited EXCEPT ![sidx + 1] = "waiting"]
                   ELSE waited) EXCEPT ![sidx] = "returned"]
    /\ wait_start' = IF sidx + 1 <= Len(processes)
                     THEN [wait_start EXCEPT ![sidx + 1] = now]
                     ELSE wait_start
    /\ waits_begun' = IF sidx + 1 <= Len(processes)
                      THEN waits_begun + 1
                      ELSE waits_begun
    /\ UNCHANGED <<pc, exit_vars, main_vars, launch_vars, monitor_vars,
                   shutdown_calls, term_sent, kill_sent, waits_at_term, term_at,
                   kill_at, proc, now, exit_at>>
    /\ UNCHANGED report_vars

\* ShutdownWaitTimesOut with one deadline for the whole shutdown: the timeout
\* of every wait is what is left of PROCESS_TERMINATE_TIMEOUT since the
\* terminate requests.
ShutdownWaitTimesOut_SharedDeadline ==
    /\ pc = "wait"
    /\ sidx <= Len(processes)
    /\ proc[sidx] = "running"
    /\ now - term_at[sidx] >= PROCESS_TERMINATE_TIMEOUT
    /\ waited' = [waited EXCEPT ![sidx] = "timeout"]
    /\ pc' = "kill"
    /\ UNCHANGED <<exit_vars, main_vars, launch_vars, monitor_vars,
                   shutdown_calls, sidx, term_sent, kill_sent, waits_begun,
                   waits_at_term, term_at, wait_start, kill_at, proc, now,
                   exit_at>>
    /\ UNCHANGED report_vars

\* shutdown_agents, lines 430-431: proc.wait raises TimeoutExpired when the
\* process is still running PROCESS_TERMINATE_TIMEOUT after the wait began.
ShutdownWaitTimesOut ==
    /\ pc = "wait"
    /\ sidx <= Len(processes)
    /\ proc[sidx] = "running"
    /\ now - wait_start[sidx] >= PROCESS_TERMINATE_TIMEOUT
    /\ waited' = [waited EXCEPT ![sidx] = "timeout"]
    /\ pc' = "kill"
    /\ UNCHANGED <<exit_vars, main_vars, launch_vars, monitor_vars,
                   shutdown_calls, sidx, term_sent, kill_sent, waits_begun,
                   waits_at_term, term_at, wait_start, kill_at, proc, now,
                   exit_at>>
    /\ UNCHANGED report_vars

\* ShutdownKill that only logs the timeout: no proc.kill().
ShutdownKill_LogOnly ==
    /\ pc = "kill"
    /\ sidx' = sidx + 1
    /\ pc' = "wait"
    /\ BeginWait(sidx + 1)
    /\ UNCHANGED <<exit_vars, main_vars, launch_vars, monitor_vars,
                   shutdown_calls, term_sent, kill_sent, kill_at, proc,
                   waits_at_term, term_at, now, exit_at>>
    /\ UNCHANGED report_vars

\* shutdown_agents, line 432: proc.kill(), then the next iteration.
ShutdownKill ==
    /\ pc = "kill"
    /\ kill_sent' = [kill_sent EXCEPT ![sidx] = @ + 1]
    /\ kill_at' = [kill_at EXCEPT ![sidx] = now]
    /\ proc' = [proc EXCEPT ![sidx] = IF @ = "running" THEN "killed" ELSE @]
    /\ sidx' = sidx + 1
    /\ pc' = "wait"
    /\ BeginWait(sidx + 1)
    /\ UNCHANGED <<exit_vars, main_vars, launch_vars, monitor_vars,
                   shutdown_calls, term_sent, waits_at_term, term_at, now,
                   exit_at>>
    /\ UNCHANGED report_vars

\* shutdown_agents returns (line 434), monitor_processes and main return.
ShutdownReturns ==
    /\ pc = "wait"
    /\ sidx > Len(processes)
    /\ SysExit("shutdown_complete", EXIT_SUCCESS)
    /\ UNCHANGED <<main_vars, launch_vars, monitor_vars, shutdown_vars,
                   proc, now, exit_at>>
    /\ UNCHANGED report_vars

\* ShutdownInterrupt with a handler that kills every process still running
\* before the script ends.
ShutdownInterrupt_KillsAll ==
    /\ pc \in {"terminate", "wait", "kill"}
    /\ SysExit("interrupted", 130)
    /\ kill_sent' = [i \in Handles |->
                        IF proc[i] = "running" THEN kill_sent[i] + 1 ELSE kill_sent[i]]
    /\ proc' = [i \in Handles |-> IF proc[i] = "running" THEN "killed" ELSE proc[i]]
    /\ UNCHANGED <<main_vars, launch_vars, monitor_vars, shutdown_calls, sidx,
                   term_sent, waited, waits_begun, waits_at_term, term_at,
                   wait_start, kill_at, now, exit_at>>
    /\ UNCHANGED report_vars

\* A second KeyboardInterrupt, raised inside the except block of
\* monitor_processes: nothing catches it and the interpreter ends on it
\* (status 130, as for SIGINT).
ShutdownInterrupt ==
    /\ pc \in {"terminate", "wait", "kill"}
    /\ SysExit("interrupted", 130)
    /\ UNCHANGED <<main_vars, launch_vars, monitor_vars, shutdown_vars,
                   proc, now, exit_at>>
    /\ UNCHANGED report_vars

(* ------------------------------------------------------------ environment *)

\* One unit of time passes while proc.wait blocks on a running process.
Tick ==
    /\ pc = "wait"
    /\ sidx <= Len(processes)
    /\ proc[sidx] = "running"
    /\ now - wait_start[sidx] < PROCESS_TERMINATE_TIMEOUT
    /\ now' = now + 1
    /\ UNCHANGED <<pc, exit_vars, main_vars, launch_vars, monitor_vars,
                   shutdown_vars, proc, exit_at>>
    /\ UNCHANGED report_vars

\* A child process exits, on its own or on the terminate request.
ProcExits(i) ==
    /\ pc \in {"launching", "poll", "report", "sleep", "terminate", "wait", "kill"}
    /\ proc[i] = "running"
    /\ proc' = [proc EXCEPT ![i] = "exited"]
    /\ exit_at' = [exit_at EXCEPT ![i] = now]
    /\ UNCHANGED <<pc, exit_vars, main_vars, launch_vars, monitor_vars,
                   shutdown_vars, now>>
    /\ UNCHANGED report_vars

(* ------------------------------------------------------------------ Spec *)

Next ==
    \/ MainDiscover
    \/ MainLoadConfig
    \/ MainProbe
    \/ MainGateAnswer
    \/ MainGateInterrupted
    \/ StartAgentsEnter
    \/ StartAgentsStep
    \/ StartAgentsPopenRaises
    \/ MainAfterStart
    \/ MonitorPoll
    \/ MonitorReport
    \/ MonitorEndOfCycle
    \/ MonitorSleep
    \/ MonitorInterrupt
    \/ ShutdownTerminate
    \/ ShutdownBeginWaits
    \/ ShutdownWaitReturns
    \/ ShutdownWaitTimesOut
    \/ ShutdownKill
    \/ ShutdownReturns
    \/ ShutdownInterrupt
    \/ Tick
    \/ \E i \in Handles : ProcExits(i)

Spec == Init /\ [][Next]_vars

\* The thread of monitor_processes keeps running: the for loop reaches its
\* next handle, handle_dead_agent returns, the end of the cycle is evaluated
\* and time.sleep(1) returns.
MonitorProgress ==
    /\ WF_vars(MonitorPoll)
    /\ WF_vars(MonitorReport)
    /\ WF_vars(MonitorEndOfCycle)
    /\ WF_vars(MonitorSleep)

LiveSpec == Spec /\ MonitorProgress

(* ------------------------------------------------------ handle_dead_agent *)

\* handle_dead_agent(name, proc) is called on a dead agent: any agent name,
\* exit status and captured output (stdout and stderr share the one pipe,
\* lines 293-294).
ReportInit ==
    /\ pc = "hda_status"
    /\ NoSession
    /\ dead_agent \in YamlFiles \ EXCLUDED_YAML_FILES
    /\ returncode \in ReturnCodes
    /\ output \in SeqsUpTo(Chars, MaxOutput)
    /\ todo = <<>>
    /\ log = <<>>

\* handle_dead_agent, line 362: the exit status is logged.
HandleDeadAgentStatus ==
    /\ pc = "hda_status"
    /\ log' = Append(log, [kind |-> "status", name |-> dead_agent,
                           code |-> returncode])
    /\ pc' = "hda_read"
    /\ UNCHANGED <<exit_vars, main_vars, launch_vars, monitor_vars,
                   shutdown_vars, proc, now, exit_at, dead_agent, returncode,
                   output, todo>>

\* handle_dead_agent, lines 364-367: proc.stdout is the pipe and is read to
\* its end; output that is not empty is stripped and split at the line
\* breaks.
HandleDeadAgentRead ==
    /\ pc = "hda_read"
    /\ IF output # <<>>
       THEN /\ todo' = split(strip(output))
            /\ pc' = "hda_lines"
       ELSE /\ pc' = "hda_return"
            /\ UNCHANGED todo
    /\ UNCHANGED <<exit_vars, main_vars, launch_vars, monitor_vars,
                   shutdown_vars, proc, now, exit_at, dead_agent, returncode,
                   output, log>>

\* handle_dead_agent, lines 367-368: one iteration of the for loop.
HandleDeadAgentLine ==
    /\ pc = "hda_lines"
    /\ todo # <<>>
    /\ log' = Append(log, [kind |-> "line", name |-> dead_agent,
                           text |-> Head(todo)])
    /\ todo' = Tail(todo)
    /\ UNCHANGED <<pc, exit_vars, main_vars, launch_vars, monitor_vars,
                   shutdown_vars, proc, now, exit_at, dead_agent, returncode,
                   output>>

\* handle_dead_agent, line 367: the for loop is over, the function returns.
HandleDeadAgentReturn ==
    /\ pc = "hda_lines"
    /\ todo = <<>>
    /\ pc' = "hda_return"
    /\ UNCHANGED <<exit_vars, main_vars, launch_vars, monitor_vars,
                   shutdown_vars, proc, now, exit_at, report_vars>>

ReportNext ==
    \/ HandleDeadAgentStatus
    \/ HandleDeadAgentRead
    \/ HandleDeadAgentLine
    \/ HandleDeadAgentReturn

ReportSpec == ReportInit /\ [][ReportNext]_vars

(* ---------------------------------------------------------------- claims *)

MonitorStates == {"poll", "report", "sleep"}

\* Number of reports emitted for the handles named n.
ReportsFor(n) ==
    Cardinality({i \in Handles : processes[i] = n /\ reports[i] >= 1})

HandleNames == {processes[i] : i \in Handles}

\* C1 as stated: when monitor_processes ends, by natural completion or by a
\* KeyboardInterrupt, every handle whose process has exited by then has
\* exactly one report, and no handle ever has more than one.
C1_ExactlyOneReport ==
    /\ [](\A i \in Handles : reports[i] <= 1)
    /\ [][(pc \in MonitorStates /\ pc' \notin MonitorStates) =>
            \A i \in Handles : proc[i] = "exited" => reports[i] = 1]_vars

\* C1, amended: no handle and no agent name is ever reported more than once;
\* a name in reported_dead has its one report, unless that report is the one
\* being emitted or the one a KeyboardInterrupt cut short;
\* a reported handle has exited; on natural completion every agent name of
\* the session has exactly one report.  (A handle that exits without a poll
\* seeing it before the KeyboardInterrupt has no report.)
C1_AtMostOneReport ==
    /\ \A i \in Handles : reports[i] <= 1 /\ (reports[i] = 1 => proc[i] = "exited")
    /\ \A n \in HandleNames : ReportsFor(n) <= 1
    /\ \A n \in HandleNames :
          /\ ReportsFor(n) = 1 => n \in reported_dead
          /\ n \in reported_dead =>
                \/ ReportsFor(n) = 1
                \/ /\ idx \in Handles /\ processes[idx] = n
                   /\ pc = "report" \/ cancelled
                   /\ proc[idx] = "exited"
    /\ outcome = "completed" =>
          /\ \A n \in HandleNames : ReportsFor(n) = 1
          /\ \A i \in Handles : proc[i] = "exited"

\* A cancelled run with two handles, both exited before any terminate request
\* was due: one was seen by a poll and reported, the other was not.
C1_Witness ==
    /\ outcome = "shutdown_complete"
    /\ \E i, j \in Handles :
          /\ processes[i] # processes[j]
          /\ reports[i] = 1
          /\ reports[j] = 0 /\ proc[j] = "exited" /\ term_sent[j] = 0

\* C2: as long as no KeyboardInterrupt was raised in monitor_processes,
\* shutdown_agents is not called and no handle is sent a terminate request
\* or a kill; natural completion is reached only that way, with every
\* process exited on its own.
C2_NaturalCompletionNoShutdown ==
    /\ ~cancelled =>
          /\ shutdown_calls = 0
          /\ \A i \in Handles : term_sent[i] = 0 /\ kill_sent[i] = 0
          /\ pc \notin {"terminate", "wait", "kill"}
    /\ outcome = "completed" =>
          /\ ~cancelled
          /\ \A i \in Handles : proc[i] = "exited"

\* Natural completion of a session of two handles.
C2_Witness ==
    /\ outcome = "completed"
    /\ Len(processes) = 2
    /\ shutdown_calls = 0

\* C7: a KeyboardInterrupt raised while monitor_processes polls, reports or
\* sleeps enters shutdown_agents at the first handle of the list; after it
\* the monitor loop polls and reports nothing more; and a cancelled run ends
\* only out of shutdown_agents.
C7_CancelEntersShutdown ==
    /\ [][(pc \in MonitorStates /\ cancelled') =>
            pc' = "terminate" /\ sidx' = 1 /\ shutdown_calls' = 1]_vars
    /\ [][cancelled =>
            UNCHANGED <<idx, alive_count, reported_dead, reports, monitor_calls>>]_vars
    /\ [](cancelled => /\ shutdown_calls = 1
                       /\ pc \in {"terminate", "wait", "kill", "exited"}
                       /\ outcome \in {"none", "shutdown_complete", "interrupted"})
    /\ [](outcome = "shutdown_complete" =>
            \A i \in Handles : waited[i] \in {"returned", "timeout"})

\* The interrupt arrived in the middle of a cycle: a handle was polled, the
\* rest of the list was not, and shutdown_agents is at its first handle.
C7_Witness ==
    /\ cancelled
    /\ pc = "terminate" /\ sidx = 1
    /\ idx > 1 /\ idx <= Len(processes)
    /\ reports[1] = 1

\* The second loop of shutdown_agents is past handle i.
WaitOver(i) == waits_begun > 0 /\ i < sidx

\* C3: in shutdown_agents no handle is ever sent more than one kill; a handle
\* whose proc.wait returned within the timeout has exited and is sent none;
\* a handle whose proc.wait timed out is sent exactly one, and only such a
\* handle is sent one.
C3_KillIffWaitTimedOut ==
    \A i \in Handles :
        /\ kill_sent[i] <= 1
        /\ kill_sent[i] = 1 => waited[i] = "timeout"
        /\ WaitOver(i) =>
              \/ waited[i] = "returned" /\ proc[i] = "exited" /\ kill_sent[i] = 0
              \/ waited[i] = "timeout" /\ kill_sent[i] = 1

\* Two handles were sent a terminate request: one exited during its wait and
\* was not killed, the other ran into the timeout and was killed once.
C3_Witness ==
    /\ outcome = "shutdown_complete"
    /\ \E i, j \in Handles :
          /\ term_sent[i] = 1 /\ waited[i] = "returned" /\ exit_at[i] > wait_start[i]
          /\ kill_sent[i] = 0
          /\ term_sent[j] = 1 /\ waited[j] = "timeout" /\ kill_sent[j] = 1

\* C4: every terminate request of shutdown_agents is sent before the first
\* proc.wait begins, and once a wait has begun every handle still running has
\* been sent its request.
C4_TerminateBeforeAnyWait ==
    /\ \A i \in Handles : term_sent[i] >= 1 => waits_at_term[i] = 0
    /\ waits_begun > 0 =>
          \A i \in Handles : proc[i] = "running" => term_sent[i] = 1

\* The first wait has begun on a slow handle while a second handle, also
\* still running, already has its terminate request.
C4_Witness ==
    /\ pc = "wait" /\ sidx = 1 /\ waits_begun = 1
    /\ Len(processes) = 2
    /\ \A i \in Handles : proc[i] = "running" /\ term_sent[i] = 1
    /\ now > 0

\* C5: when shutdown_agents has returned no handle is running: each process
\* has exited or was killed after its wait timed out.
C5_NoneRunningAfterShutdown ==
    outcome = "shutdown_complete" =>
        \A i \in Handles :
            \/ proc[i] = "exited"
            \/ proc[i] = "killed" /\ kill_sent[i] = 1

\* shutdown_agents returned with one handle that ignored the terminate request
\* and was killed, and one that exited while shutdown was waiting.
C5_Witness ==
    /\ outcome = "shutdown_complete"
    /\ \E i, j \in Handles :
          /\ proc[i] = "killed"
          /\ proc[j] = "exited" /\ term_sent[j] = 1 /\ exit_at[j] > 0

\* C6 as stated: a handle that was sent a terminate request is killed if it
\* has not exited PROCESS_TERMINATE_TIMEOUT after the request, and is not
\* killed if it exited before that (an exit at the very end of the window may
\* go either way).
C6_WindowFromTerminate ==
    \A i \in Handles :
        (term_sent[i] = 1 /\ WaitOver(i)) =>
            /\ (proc[i] = "exited" /\ exit_at[i] < term_at[i] + PROCESS_TERMINATE_TIMEOUT)
                  => kill_sent[i] = 0
            /\ ~(proc[i] = "exited" /\ exit_at[i] <= term_at[i] + PROCESS_TERMINATE_TIMEOUT)
                  => kill_sent[i] = 1

\* C6, amended: the window of a handle is the PROCESS_TERMINATE_TIMEOUT of its
\* own proc.wait, which begins when the waits on the handles before it in the
\* list are over.  It is never truncated (no kill earlier than the timeout
\* after the handle's terminate request) but the waits on earlier handles
\* extend it, by up to the timeout for each: the i-th handle is killed if and
\* only if it is still running when its own wait has lasted the timeout,
\* which is between 1 and i timeouts after its terminate request.
C6_WindowFromOwnWait ==
    \A i \in Handles :
        /\ (waited[i] # "none" /\ i = 1) => wait_start[i] = term_at[i]
        /\ (waited[i] # "none" /\ i > 1) =>
              /\ wait_start[i] >= wait_start[i - 1]
              /\ wait_start[i] <= wait_start[i - 1] + PROCESS_TERMINATE_TIMEOUT
        /\ kill_sent[i] >= 1 =>
              /\ kill_at[i] = wait_start[i] + PROCESS_TERMINATE_TIMEOUT
              /\ kill_at[i] >= term_at[i] + PROCESS_TERMINATE_TIMEOUT
              /\ kill_at[i] <= term_at[i] + i * PROCESS_TERMINATE_TIMEOUT
              /\ proc[i] = "killed" \/ exit_at[i] = kill_at[i]
        /\ (term_sent[i] = 1 /\ WaitOver(i)) =>
              /\ (proc[i] = "exited" /\ exit_at[i] < wait_start[i] + PROCESS_TERMINATE_TIMEOUT)
                    => kill_sent[i] = 0
              /\ ~(proc[i] = "exited" /\ exit_at[i] <= wait_start[i] + PROCESS_TERMINATE_TIMEOUT)
                    => kill_sent[i] = 1

\* The first handle ignored its terminate request for the whole timeout; the
\* second exited later than the timeout after its own request, during its own
\* wait, and was not killed.
C6_Witness ==
    /\ outcome = "shutdown_complete"
    /\ \E i \in Handles :
          /\ i > 1
          /\ kill_sent[i - 1] = 1
          /\ term_sent[i] = 1 /\ kill_sent[i] = 0
          /\ exit_at[i] > term_at[i] + PROCESS_TERMINATE_TIMEOUT

\* The identifiers of a[1..n] whose file was there, in order.
RECURSIVE Found(_, _, _)
Found(a, p, n) ==
    IF n = 0 THEN <<>>
    ELSE IF p[n] THEN Append(Found(a, p, n - 1), a[n])
    ELSE Found(a, p, n - 1)

\* start_agents has returned its list to main.
StartAgentsReturned == monitor_calls > 0 \/ outcome = "no_agents_started"

\* C8: while start_agents runs without Popen raising, the handles are the
\* identifiers looked at so far whose file existed, in input order; when it
\* returns, every input identifier has been looked at.
C8_HandlesAreFoundInOrder ==
    /\ outcome # "launch_error" =>
          /\ Len(present) <= Len(agents)
          /\ processes = Found(agents, present, Len(present))
    /\ StartAgentsReturned => Len(present) = Len(agents)

\* The file of the first of two identifiers was absent: start_agents returned
\* the handle of the second alone.
C8_Witness ==
    /\ StartAgentsReturned
    /\ Len(agents) = 2
    /\ present = <<FALSE, TRUE>>
    /\ processes = <<agents[2]>>

\* C9: monitor_processes and shutdown_agents are entered only with at least
\* one handle, and a run whose start_agents found no file at all ends with
\* EXIT_NO_AGENTS having entered neither.
C9_EmptySessionIsFatal ==
    /\ (monitor_calls > 0 \/ shutdown_calls > 0 \/ pc \in MonitorStates) =>
          Len(processes) >= 1
    /\ (/\ pc = "exited"
        /\ agents # <<>>
        /\ Len(present) = Len(agents)
        /\ \A i \in DOMAIN present : ~present[i]) =>
          /\ outcome = "no_agents_started"
          /\ exit_code = EXIT_NO_AGENTS
          /\ monitor_calls = 0
          /\ shutdown_calls = 0

\* Two identifiers were configured and available, both files were gone at
\* launch: the run ended with EXIT_NO_AGENTS.
C9_Witness ==
    /\ outcome = "no_agents_started"
    /\ exit_code = EXIT_NO_AGENTS
    /\ Len(agents) = 2
    /\ processes = <<>>

\* C10: a run that ends on a configuration error, a missing agent directory
\* or agent.py, an empty list of valid agents or the operator's refusal ends
\* with that outcome's exit code and has started no process; a process is
\* only ever started for an available agent, after the configuration was
\* accepted and the reachability gate was passed.
C10_NoProcessBeforeFatalExit ==
    /\ outcome = "config_error" => exit_code = EXIT_CONFIG_ERROR /\ processes = <<>>
    /\ outcome \in {"agent_dir_not_found", "agent_py_not_found"} =>
          exit_code = EXIT_AGENT_DIR_NOT_FOUND /\ processes = <<>>
    /\ outcome \in {"no_valid_agents", "no_agents_started"} =>
          exit_code = EXIT_NO_AGENTS /\ processes = <<>>
    /\ outcome = "user_abort" => exit_code = EXIT_USER_ABORT /\ processes = <<>>
    /\ gate = "declined" => processes = <<>>
    /\ ~config_ok => processes = <<>>
    /\ processes # <<>> =>
          /\ config_ok
          /\ gate = "passed"
          /\ \A i \in Handles :
                processes[i] \in available /\ processes[i] \notin EXCLUDED_YAML_FILES

\* The operator declined at the gate of a run with valid agents.
C10_Witness ==
    /\ outcome = "user_abort"
    /\ gate = "declined"
    /\ agents # <<>>
    /\ processes = <<>>

C12_ExitIsContained ==
    /\ [][(\E i \in Handles : reports'[i] # reports[i]) =>
            /\ pc = "report" /\ pc' = "poll" /\ idx' = idx + 1
            /\ UNCHANGED <<proc, term_sent, kill_sent, shutdown_calls, outcome>>]_vars
    /\ [](pc \in MonitorStates =>
            /\ \A i \in Handles : term_sent[i] = 0 /\ kill_sent[i] = 0
            /\ alive_count >=
                  Cardinality({i \in Handles : i < idx /\ proc[i] = "running"}))
    /\ [][(pc \in MonitorStates /\ pc' = "exited") =>
            \A i \in Handles : proc[i] # "running"]_vars
    /\ [][(pc = "poll" /\ idx > Len(processes) /\ pc' # pc /\ ~cancelled'
           /\ \E i \in Handles : proc[i] = "running") => pc' = "sleep"]_vars

\* One agent has exited and was reported; the other is still running and was
\* counted, and the monitor sleeps until the next cycle.
C12_Witness ==
    /\ pc = "sleep"
    /\ Len(processes) = 2
    /\ reports[1] = 1
    /\ proc[2] = "running"
    /\ alive_count = 1

\* C13 as stated: once shutdown_agents has been entered the run ends only
\* with shutdown complete, whatever arrives meanwhile: every handle was
\* waited on, every handle whose wait timed out was killed, none is running.
C13_ShutdownRunsToCompletion ==
    (pc = "exited" /\ shutdown_calls = 1) =>
        \A i \in Handles :
            /\ waited[i] \in {"returned", "timeout"}
            /\ waited[i] = "timeout" => kill_sent[i] = 1
            /\ proc[i] # "running"

\* C13, amended: shutdown_agents runs to completion only if no second
\* KeyboardInterrupt arrives.  A second one is caught by nothing: it ends
\* shutdown_agents and the script where it arrives and does nothing else, so
\* the handles the loops had not reached yet are left as they were, without a
\* terminate request (first loop) or without a wait and a kill (second loop),
\* and may still be running.  A cancelled run that ends without a second
\* KeyboardInterrupt has waited on every handle and left none running.
C13_SecondInterruptAbortsShutdown ==
    /\ [][(outcome = "none" /\ outcome' = "interrupted") =>
            /\ pc \in {"terminate", "wait", "kill"}
            /\ UNCHANGED <<proc, shutdown_vars, monitor_vars, now>>]_vars
    /\ [](outcome = "interrupted" =>
            /\ shutdown_calls = 1 /\ cancelled
            /\ waits_begun = 0 =>
                  \A i \in Handles :
                      /\ i >= sidx => term_sent[i] = 0
                      /\ waited[i] = "none" /\ kill_sent[i] = 0
            /\ waits_begun > 0 =>
                  \A i \in Handles :
                      /\ i < sidx => proc[i] # "running"
                      /\ i > sidx => waited[i] = "none" /\ kill_sent[i] = 0)
    /\ []((pc = "exited" /\ cancelled /\ outcome # "interrupted") =>
            /\ outcome = "shutdown_complete"
            /\ \A i \in Handles :
                  /\ waited[i] \in {"returned", "timeout"}
                  /\ waited[i] = "timeout" => kill_sent[i] = 1
                  /\ proc[i] # "running")

\* The second KeyboardInterrupt arrived between the terminate request of the
\* first handle and that of the second: the second handle is left running,
\* never asked to terminate, never waited on.
C13_Witness ==
    /\ outcome = "interrupted"
    /\ Len(processes) = 2
    /\ term_sent = <<1, 0>>
    /\ proc[2] = "running"
    /\ waited[2] = "none"

\* C14 as stated: when monitor_processes ends by natural completion every
\* handle of the session has exited and has had its report.
C14_AllReportedAtCompletion ==
    outcome = "completed" =>
        \A i \in Handles : proc[i] = "exited" /\ reports[i] = 1

\* The handles the current cycle has passed and found exited: those passed
\* (before idx) less those counted alive.
SeenExited == (idx - 1) - alive_count

\* C15 as stated: a handle's state only moves forward.  A process that has
\* exited never runs again, a name in reported_dead stays there and a report
\* is never taken back; and every handle the current cycle found exited has
\* had its report by the time the poll moves on to the next handle, so before
\* the sleep of that cycle.
C15_ForwardWithinOneCycle ==
    /\ [][(\A i \in Handles : proc[i] # "running" => proc'[i] = proc[i])]_vars
    /\ [][(pc \in MonitorStates) =>
            (reported_dead \subseteq reported_dead' /\
             \A i \in Handles : reports'[i] >= reports[i])]_vars
    /\ []((pc \in {"poll", "sleep"} /\ ~cancelled) =>
            Cardinality({i \in Handles : i < idx /\ reports[i] = 1}) = SeenExited)

\* The poll stands at a handle that has exited and already has its report.
AtReportedHandle ==
    /\ pc = "poll"
    /\ idx \in Handles
    /\ proc[idx] = "exited"
    /\ reports[idx] = 1

\* C16: reporting is idempotent across poll cycles.  A handle that has its
\* report never gets another one; a poll that finds an exited, reported handle
\* again calls handle_dead_agent for no handle and only moves on to the next
\* one; and a cycle that counted a running handle does not end the loop.
C16_ReportingIsIdempotent ==
    /\ [][(\A i \in Handles : reports[i] >= 1 => reports'[i] = reports[i])]_vars
    /\ [][AtReportedHandle =>
            (reports' = reports /\ reported_dead' = reported_dead /\
             pc' # "report" /\ (idx' # idx => idx' = idx + 1))]_vars
    /\ [][(pc = "poll" /\ idx > Len(processes) /\ alive_count > 0) =>
            outcome' # "completed"]_vars

\* A later cycle stands again at the first handle, reported in an earlier
\* cycle, while the second handle is still running.
C16_Witness ==
    /\ AtReportedHandle
    /\ idx = 1
    /\ monitor_calls = 1 /\ ~cancelled
    /\ Len(processes) = 2
    /\ proc[2] = "running"

\* C17: in the first loop of shutdown_agents a terminate request goes to
\* exactly the handles whose process is running when the loop checks them.  A
\* request is sent only by that loop, to the handle it stands at, and only if
\* that process is running; the loop sends one to every handle it finds
\* running; no handle ever has more than one request.
C17_TerminateExactlyTheRunning ==
    /\ [](\A i \in Handles : term_sent[i] <= 1)
    /\ [][(\A i \in Handles :
              term_sent'[i] # term_sent[i] =>
                  (pc = "terminate" /\ sidx = i /\ proc[i] = "running"))]_vars
    /\ [][(pc = "terminate" /\ sidx \in Handles /\ sidx' = sidx + 1) =>
            (term_sent'[sidx] = (IF proc[sidx] = "running" THEN 1 ELSE 0))]_vars

\* The first loop is over: it skipped the first handle, which had exited
\* before the KeyboardInterrupt, and sent its request to the second.
C17_Witness ==
    /\ pc = "wait"
    /\ Len(processes) = 2
    /\ term_sent = <<0, 1>>
    /\ exit_at[1] = 0 /\ proc[1] = "exited"

\* Every launched process has exited.
AllExited == \A i \in Handles : proc[i] = "exited"

\* C18: once every process monitor_processes watches has exited, the loop
\* ends by natural completion unless a KeyboardInterrupt arrives first; a
\* cycle whose count of running handles is zero ends the loop at its end, so
\* the loop never sleeps after such a cycle.
C18_NaturalCompletionIsReached ==
    /\ (monitor_calls = 1 /\ AllExited) ~> (outcome = "completed" \/ cancelled)
    /\ [][(pc = "poll" /\ idx > Len(processes) /\ alive_count = 0) =>
            (pc' = pc \/ outcome' = "completed" \/ cancelled')]_vars
    /\ [](pc = "sleep" => alive_count > 0)

\* Two processes have exited, each has had its report, and the loop ended by
\* itself with the script's success status.
C18_Witness ==
    /\ outcome = "completed"
    /\ exit_code = EXIT_SUCCESS
    /\ ~cancelled
    /\ Len(processes) = 2
    /\ reports = <<1, 1>>

\* C20: escalation is single and ordered.  A handle is killed at most once;
\* a killed handle was sent a terminate request before its wait began and
\* that wait ran its whole PROCESS_TERMINATE_TIMEOUT and timed out before the
\* kill; and after the kill the handle is sent nothing more and is not waited
\* for again.
C20_EscalationSingleAndOrdered ==
    /\ [](\A i \in Handles :
            /\ kill_sent[i] <= 1
            /\ kill_sent[i] = 1 =>
                  /\ term_sent[i] = 1
                  /\ waited[i] = "timeout"
                  /\ term_at[i] <= wait_start[i]
                  /\ wait_start[i] + PROCESS_TERMINATE_TIMEOUT <= kill_at[i])
    /\ [][(\A i \in Handles :
              kill_sent[i] = 1 =>
                  (/\ kill_sent'[i] = 1
                   /\ term_sent'[i] = term_sent[i]
                   /\ waited'[i] = waited[i]
                   /\ kill_at'[i] = kill_at[i]))]_vars

\* The first handle has just been killed after its wait timed out; the wait
\* on the second, also sent a terminate request, is running.
C20_Witness ==
    /\ pc = "wait" /\ sidx = 2
    /\ Len(processes) = 2
    /\ term_sent = <<1, 1>>
    /\ kill_sent = <<1, 0>>
    /\ proc = <<"killed", "running">>
    /\ waited = <<"timeout", "waiting">>

\* The lines of a text: every line break ends a line, and what follows the
\* last line break, if anything, is a last line.
RECURSIVE LinesOf(_)
LinesOf(s) ==
    IF s = <<>> THEN <<>>
    ELSE IF \A k \in 1..Len(s) : s[k] # "\n" THEN <<s>>
    ELSE LET k == CHOOSE k \in 1..Len(s) :
                      s[k] = "\n" /\ \A j \in 1..(k - 1) : s[j] # "\n"
         IN  <<SubSeq(s, 1, k - 1)>> \o LinesOf(SubSeq(s, k + 1, Len(s)))

\* The text holds nothing but line breaks (the empty text included).
OnlyLineBreaks(s) == \A k \in 1..Len(s) : s[k] = "\n"

\* C19 as stated: the report of handle_dead_agent is the exit status, then
\* one record per line of the captured output, in order, each under the
\* agent's name; output that is empty, or empty apart from line breaks,
\* gives no output record.
C19_ReportIsStatusThenLines ==
    pc = "hda_return" =>
        /\ Len(log) >= 1
        /\ log[1] = [kind |-> "status", name |-> dead_agent, code |-> returncode]
        /\ OnlyLineBreaks(output) => Len(log) = 1
        /\ ~OnlyLineBreaks(output) =>
              /\ Len(log) = 1 + Len(LinesOf(output))
              /\ \A k \in 1..Len(LinesOf(output)) :
                    /\ log[k + 1].kind = "line"
                    /\ log[k + 1].name = dead_agent
                    /\ log[k + 1].text = LinesOf(output)[k]

====
